---- MODULE Spec2Model ----
(***************************************************************************)
(* Text-to-speech front end: the App component (form state, handleGenerate, *)
(* loadVoices, messages), the two convertTextToSpeech adapters (gateway     *)
(* /synthesize and authenticated /text-to-speech), and the AudioPlayer      *)
(* component (playback state, listener effect, blob-URL cleanup effect)     *)
(* together with the <audio> element it drives.                             *)
(*                                                                          *)
(* Conventions.  Numbers with decimals (speech rate) are held in            *)
(* hundredths.  A text is held as the three lengths JavaScript's trim() and *)
(* length care about: leading white space, body (first to last non-blank    *)
(* code unit), trailing white space.  React state of App is taken as        *)
(* rendered at once; what lags is the AudioPlayer's commit for a new        *)
(* audioUrl prop (src switch, effect cleanups, effects), which React runs   *)
(* in a later task than the promise continuation that called setAudioUrl.   *)
(***************************************************************************)
EXTENDS Integers, Sequences, FiniteSets, TLC

\* ------------------------------------------------------------------ bounds
MaxGenerations == 2     \* accepted generate actions (fetches) per session
MediaLength == 2        \* duration, in seconds, of every synthesized audio

\* ------------------------------------------------------- program constants
MAX_TEXT == 3000        \* App.tsx: text.length > 3000
RATE_MIN == 25          \* 0.25, documented range of speechRate
RATE_MAX == 400         \* 4.0
PITCH_MIN == -20        \* documented range of pitch
PITCH_MAX == 20
VOLUME_MAX == 10        \* volume slider max={1}, in steps of 0.1

Null == "null"          \* JavaScript null / undefined
NoUrl == [kind |-> "none", id |-> 0]

EMPTY_TEXT_MSG == "Please enter some text to convert to speech."
TOO_LONG_MSG == "Text exceeds maximum length of 3,000 characters."
SUCCESS_MSG == "Audio generated successfully!"
UNEXPECTED_MSG == "An unexpected error occurred. Please try again."
NOT_CONFIGURED_MSG == "TTS API URL not configured. Please set VITE_TTS_API_URL environment variable."
NETWORK_MSG == "Network error. Please check your internet connection and VITE_TTS_API_URL configuration."
GENERIC_MSG == "Failed to convert text to speech. Please try again."

\* Voice ids (accents dropped: Celine stands for the id with e-acute).
DEMO_VOICES == {"Joanna", "Matthew", "Amy", "Brian", "Celine", "Mathieu"}

STATIC_VOICES ==
  {"Joanna", "Matthew", "Ivy", "Justin", "Kendra", "Kimberly", "Salli", "Joey",
   "Amy", "Brian", "Emma", "Nicole", "Russell", "Olivia",
   "Celine", "Mathieu", "Lea", "Marlene", "Hans", "Vicki",
   "Penelope", "Enrique", "Conchita", "Carla", "Giorgio", "Bianca",
   "Ines", "Cristiano", "Mizuki", "Takumi", "Seoyeon", "Zhiyu"}

\* ------------------------------------------------------------------- text
Text(l, b, t) == [lead |-> l, body |-> b, trail |-> t]

\* String.prototype.length
Length(t) == t.lead + t.body + t.trail

\* String.prototype.trim
Trim(t) == [lead |-> 0, body |-> t.body, trail |-> 0]

\* Mutant of IsBlank: !text, without the trim
IsBlankUntrimmed(t) == Length(t) = 0

\* !text.trim(): the empty string is the only falsy string
IsBlank(t) == Length(Trim(t)) = 0

\* Mutant of TooLong: the trimmed length is compared
TooLongTrimmed(t) == Length(Trim(t)) > MAX_TEXT

\* text.length > 3000
TooLong(t) == Length(t) > MAX_TEXT

\* Number.prototype.toString of h/100, h an integer number of hundredths
NumberToString(h) ==
  LET a == IF h < 0 THEN -h ELSE h
      ip == a \div 100
      fp == a % 100
      frac == IF fp = 0 THEN ""
              ELSE IF fp % 10 = 0 THEN "." \o ToString(fp \div 10)
              ELSE IF fp < 10 THEN ".0" \o ToString(fp)
              ELSE "." \o ToString(fp)
  IN  (IF h < 0 THEN "-" ELSE "") \o ToString(ip) \o frac

\* The request literal of handleGenerate
BuildRequest(txt, voice, eng, rate, pit) ==
  [text |-> Trim(txt),
   voiceId |-> voice,
   engine |-> eng,
   outputFormat |-> "mp3",
   speechRate |-> NumberToString(rate),
   pitch |-> NumberToString(pit * 100)]

\* ---------------------------------------------------------------- adapter
\* What the network returns for one call.  net: "ok", or how fetch rejected:
\* "typeErrorFetch" (a TypeError whose message contains "fetch") or "other".
\* body: "ok" (read, and parsed where JSON is wanted), or how reading it
\* rejected, in the same two kinds.  A missing JSON field is Null (a string
\* field) or NoUrl (a URL field).
\* reqId: the x-request-id header of an audio response, the requestId field
\* of a JSON body.
Response(net, status, statusText, ctype, body, message, err, aUrl, url, reqId) ==
  [net |-> net, status |-> status, statusText |-> statusText, ctype |-> ctype,
   body |-> body, message |-> message, error |-> err,
   audioUrl |-> aUrl, url |-> url, reqId |-> reqId]

RemoteUrl(n) == [kind |-> "remote", id |-> n]
BlobUrl(n) == [kind |-> "blob", id |-> n]

\* a || b on strings: undefined, null and "" are falsy
OrElse(a, b) == IF a = Null \/ a = "" THEN b ELSE a

\* a || b on URL fields
UrlOrElse(a, b) == IF a = NoUrl THEN b ELSE a

HttpErrorMsg(status) == "HTTP error! status: " \o ToString(status)

\* response.ok
ResponseOk(r) == r.status >= 200 /\ r.status <= 299

\* contentType.includes('audio/')
IsAudioType(ctype) == ctype \in {"audio/mpeg", "audio/ogg"}

\* Mutant of Failure: the error carries no message
FailureSilent(msg, status) ==
  [ok |-> FALSE, blob |-> FALSE, audioUrl |-> NoUrl, message |-> Null, status |-> status,
   contentType |-> Null, requestId |-> Null]

\* throw new TTSApiError(msg, status); status 0 stands for no status.
\* blob: whether the call has created a blob URL
Failure(msg, status) ==
  [ok |-> FALSE, blob |-> FALSE, audioUrl |-> NoUrl, message |-> msg, status |-> status,
   contentType |-> Null, requestId |-> Null]

\* The returned TTSResponse / LambdaTTSResponse
Success(url, isBlob, ctype, reqId) ==
  [ok |-> TRUE, blob |-> isBlob, audioUrl |-> url, message |-> Null, status |-> 0,
   contentType |-> ctype, requestId |-> reqId]

\* crypto.randomUUID(), where the page has it
GENERATED_ID == "generated-uuid"

\* catch (error) of the gateway adapter, for an error that is no TTSApiError
CatchGateway(kind) ==
  IF kind = "typeErrorFetch" THEN Failure(NETWORK_MSG, 0) ELSE Failure(GENERIC_MSG, 0)

\* convertTextToSpeech, gateway shape (POST /synthesize), after getApiUrl().
\* fresh is the blob URL that URL.createObjectURL returns; uuid is whether
\* crypto.randomUUID exists (secure contexts only): calling it where it does
\* not throws a TypeError, which the catch turns into the generic error,
\* in the audio branch after the blob URL has been created.
ConvertGateway(r, fresh, uuid) ==
  IF r.net # "ok" THEN CatchGateway(r.net)
  ELSE IF ~ResponseOk(r) THEN
    IF r.body = "ok"
      THEN Failure(OrElse(r.message, OrElse(r.error, HttpErrorMsg(r.status))), r.status)
      ELSE Failure(OrElse(r.statusText, HttpErrorMsg(r.status)), r.status)
  ELSE IF IsAudioType(r.ctype) THEN
    IF r.body # "ok" THEN CatchGateway(r.body)
    ELSE IF OrElse(r.reqId, Null) = Null /\ ~uuid
      THEN [CatchGateway("other") EXCEPT !.blob = TRUE]
      ELSE Success(fresh, TRUE, r.ctype, OrElse(r.reqId, GENERATED_ID))
  ELSE
    IF r.body # "ok" THEN CatchGateway(r.body)
    ELSE IF OrElse(r.reqId, Null) = Null /\ ~uuid
      THEN CatchGateway("other")
      ELSE Success(UrlOrElse(r.audioUrl, r.url), FALSE, "audio/mpeg",
                   OrElse(r.reqId, GENERATED_ID))

\* convertTextToSpeech, authenticated shape (POST /text-to-speech)
ConvertFunction(r) ==
  IF r.net # "ok" THEN Failure(GENERIC_MSG, 0)
  ELSE IF ~ResponseOk(r) THEN
    IF r.body = "ok"
      THEN Failure(OrElse(r.message, HttpErrorMsg(r.status)), r.status)
      ELSE Failure(HttpErrorMsg(r.status), r.status)
  ELSE
    IF r.body = "ok" THEN Success(r.audioUrl, FALSE, "audio/mpeg", r.reqId)
    ELSE Failure(GENERIC_MSG, 0)

\* cleanupAudioUrl: url && url.startsWith('blob:')
IsBlobUrl(url) == url.kind = "blob"

\* ------------------------------------------------------------------ state
VARIABLES
  \* App (useState)
  text, selectedVoice, speechRate, pitch, engine, voices, audioUrl,
  isGenerating, error, success, loadingVoices,
  \* build-time configuration: shape is which utils/api the App imports
  \* ("gateway": POST /synthesize, "function": POST /text-to-speech);
  \* configured is whether the base URL variable is set
  \* secureContext is whether the page is served from a secure context
  shape, configured, secureContext,
  \* asynchronous work in flight
  inFlight,       \* requests handed to fetch by convertTextToSpeech, unsettled
  fetches,        \* number of synthesis fetches issued so far
  voicesCall,     \* getAvailableVoices() pending
  timers,         \* pending setTimeout(() => setSuccess(null), 3000), by fetch number
  \* URL.createObjectURL / URL.revokeObjectURL
  nBlobs,         \* blob URLs created so far: BlobUrl(1) .. BlobUrl(nBlobs)
  revokes,        \* blob id -> number of revokeObjectURL calls on it
  handed,         \* blob ids the AudioPlayer has received as its audioUrl prop
  \* AudioPlayer
  mounted,        \* the component tree is mounted
  boundUrl,       \* the audioUrl prop of the last commit (effects have run for it)
  state,          \* AudioPlayerState
  \* the <audio> element
  el,             \* [paused, time, loaded, failed]
  pending,        \* media events queued and not yet dispatched: [kind, url]
  playCalls       \* some audio.play() promise is not yet settled

appVars == <<text, selectedVoice, speechRate, pitch, engine, voices, audioUrl,
             isGenerating, error, success, loadingVoices>>
cfgVars == <<shape, configured, secureContext>>
callVars == <<inFlight, fetches, voicesCall, timers>>
urlVars == <<nBlobs, revokes, handed>>
playerVars == <<mounted, boundUrl, state, el, pending, playCalls>>
vars == <<appVars, cfgVars, callVars, urlVars, playerVars>>

\* blob URLs created and not revoked
Live == {i \in 1..nBlobs : revokes[i] = 0}

\* The AudioPlayer has committed the current audioUrl
Committed == boundUrl = audioUrl

\* useState initial values; the mount effect has called loadVoices(), which
\* has set loadingVoices and awaits getAvailableVoices()
InitApp ==
  /\ text = Text(0, 0, 0)
  /\ selectedVoice = "Joanna"
  /\ speechRate = 100
  /\ pitch = 0
  /\ engine = "standard"
  /\ voices = DEMO_VOICES
  /\ audioUrl = NoUrl
  /\ isGenerating = FALSE
  /\ error = Null
  /\ success = Null
  /\ loadingVoices = TRUE
  /\ voicesCall = TRUE

InitRest ==
  /\ inFlight = <<>>
  /\ fetches = 0
  /\ timers = {}
  /\ nBlobs = 0
  /\ revokes = <<>>
  /\ handed = {}
  /\ mounted = TRUE
  /\ boundUrl = NoUrl
  /\ state = [isPlaying |-> FALSE, currentTime |-> 0, duration |-> 0, volume |-> VOLUME_MAX]
  /\ el = [paused |-> TRUE, time |-> 0, loaded |-> FALSE, failed |-> FALSE]
  /\ pending = {}
  /\ playCalls = FALSE

Init ==
  /\ InitApp
  /\ InitRest
  /\ shape \in {"gateway", "function"}
  /\ configured \in BOOLEAN
  /\ secureContext \in BOOLEAN

\* -------------------------------------------------------------------- App
\* Mutant of GenerateDisabled: the button ignores isGenerating
GenerateDisabledIgnoringBusy == IsBlank(text) \/ TooLong(text)

\* disabled={isGenerating || !text.trim() || text.length > 3000}
GenerateDisabled == isGenerating \/ IsBlank(text) \/ TooLong(text)

\* Mutant of FetchCalls: the adapter sends the request a second time
FetchCallsWithRetry == 1 + 1

\* convertTextToSpeech calls fetch once, outside any loop
FetchCalls == 1

\* A handleGenerate that leaves the success message of the generation before
HandleGenerateKeepingSuccess ==
  IF IsBlank(text) THEN
    /\ error' = EMPTY_TEXT_MSG
    /\ UNCHANGED <<isGenerating, success, inFlight, fetches>>
  ELSE IF TooLong(text) THEN
    /\ error' = TOO_LONG_MSG
    /\ UNCHANGED <<isGenerating, success, inFlight, fetches>>
  ELSE
    /\ UNCHANGED success
    /\ IF shape = "gateway" /\ ~configured
       THEN /\ error' = NOT_CONFIGURED_MSG
            /\ isGenerating' = FALSE
            /\ UNCHANGED <<inFlight, fetches>>
       ELSE /\ error' = Null
            /\ isGenerating' = TRUE
            /\ inFlight' = Append(inFlight,
                             BuildRequest(text, selectedVoice, engine, speechRate, pitch))
            /\ fetches' = fetches + FetchCalls

\* handleGenerate up to its first suspension.  With the gateway adapter and
\* no base URL, getApiUrl() throws inside convertTextToSpeech: the promise
\* is rejected without a fetch, and catch and finally run before any other
\* task.  The function adapter builds its URL from the unset variable and
\* fetches all the same.
HandleGenerate ==
  IF IsBlank(text) THEN
    /\ error' = EMPTY_TEXT_MSG
    /\ UNCHANGED <<isGenerating, success, inFlight, fetches>>
  ELSE IF TooLong(text) THEN
    /\ error' = TOO_LONG_MSG
    /\ UNCHANGED <<isGenerating, success, inFlight, fetches>>
  ELSE
    /\ success' = Null
    /\ IF shape = "gateway" /\ ~configured
       THEN /\ error' = NOT_CONFIGURED_MSG
            /\ isGenerating' = FALSE
            /\ UNCHANGED <<inFlight, fetches>>
       ELSE /\ error' = Null
            /\ isGenerating' = TRUE
            /\ inFlight' = Append(inFlight,
                             BuildRequest(text, selectedVoice, engine, speechRate, pitch))
            /\ fetches' = fetches + FetchCalls

\* The convertTextToSpeech of the utils/api module the App imports, applied
\* to the response the fetch settles with
Convert(r) ==
  IF shape = "gateway" THEN ConvertGateway(r, BlobUrl(nBlobs + 1), secureContext)
  ELSE ConvertFunction(r)

\* The number of the fetch whose call settles next (calls settle in order)
SettlingFetch == fetches - Len(inFlight) + 1

\* A settlement that drops the audio when the call failed
SettleGenerateClearing(r) ==
  /\ inFlight # <<>>
  /\ LET res == Convert(r)
     IN  /\ inFlight' = Tail(inFlight)
         /\ nBlobs' = IF res.blob THEN nBlobs + 1 ELSE nBlobs
         /\ revokes' = IF res.blob THEN Append(revokes, 0) ELSE revokes
         /\ IF ~mounted THEN UNCHANGED <<audioUrl, success, error, isGenerating, timers>>
            ELSE /\ isGenerating' = FALSE
                 /\ IF res.ok
                    THEN /\ audioUrl' = res.audioUrl
                         /\ success' = SUCCESS_MSG
                         /\ timers' = timers \cup {SettlingFetch}
                         /\ UNCHANGED error
                    ELSE /\ error' = res.message
                         /\ audioUrl' = NoUrl
                         /\ UNCHANGED <<success, timers>>
  /\ UNCHANGED <<text, selectedVoice, speechRate, pitch, engine, voices, loadingVoices,
                 cfgVars, fetches, voicesCall, handed, playerVars>>

\* The pending convertTextToSpeech call settles on response r, and
\* handleGenerate resumes: try (setAudioUrl, setSuccess, setTimeout), catch
\* (setError) and finally (setIsGenerating(false)).  The adapter runs whether
\* or not the component is still mounted; the setters of an unmounted
\* component do nothing.
SettleGenerate(r) ==
  /\ inFlight # <<>>
  /\ LET res == Convert(r)
     IN  /\ inFlight' = Tail(inFlight)
         /\ nBlobs' = IF res.blob THEN nBlobs + 1 ELSE nBlobs
         /\ revokes' = IF res.blob THEN Append(revokes, 0) ELSE revokes
         /\ IF ~mounted THEN UNCHANGED <<audioUrl, success, error, isGenerating, timers>>
            ELSE /\ isGenerating' = FALSE
                 /\ IF res.ok
                    THEN /\ audioUrl' = res.audioUrl
                         /\ success' = SUCCESS_MSG
                         /\ timers' = timers \cup {SettlingFetch}
                         /\ UNCHANGED error
                    ELSE /\ error' = res.message
                         /\ UNCHANGED <<audioUrl, success, timers>>
  /\ UNCHANGED <<text, selectedVoice, speechRate, pitch, engine, voices, loadingVoices,
                 cfgVars, fetches, voicesCall, handed, playerVars>>

\* onClick={handleGenerate} of the generate button
ClickGenerate ==
  /\ mounted
  /\ Committed
  /\ ~GenerateDisabled
  /\ fetches < MaxGenerations
  /\ HandleGenerate
  /\ UNCHANGED <<text, selectedVoice, speechRate, pitch, engine, voices, audioUrl,
                 loadingVoices, cfgVars, voicesCall, timers, urlVars, playerVars>>

\* setTimeout(() => setSuccess(null), 3000) fires
TimerFire(g) ==
  /\ g \in timers
  /\ timers' = timers \ {g}
  /\ success' = IF mounted THEN Null ELSE success
  /\ UNCHANGED <<text, selectedVoice, speechRate, pitch, engine, voices, audioUrl,
                 isGenerating, error, loadingVoices, cfgVars, inFlight, fetches,
                 voicesCall, urlVars, playerVars>>

\* clearMessages: the x button of either alert, shown while (error || success)
ClearMessages ==
  /\ mounted
  /\ Committed
  /\ error # Null \/ success # Null
  /\ error' = Null
  /\ success' = Null
  /\ UNCHANGED <<text, selectedVoice, speechRate, pitch, engine, voices, audioUrl,
                 isGenerating, loadingVoices, cfgVars, callVars, urlVars, playerVars>>

\* TextInput onChange={setText}
SetText(t) ==
  /\ mounted
  /\ Committed
  /\ text' = t
  /\ UNCHANGED <<selectedVoice, speechRate, pitch, engine, voices, audioUrl,
                 isGenerating, error, success, loadingVoices, cfgVars, callVars,
                 urlVars, playerVars>>

\* VoiceSelector: an option of the current catalog is clicked; the
\* selector's button is disabled while loading
SetSelectedVoice(v) ==
  /\ mounted
  /\ Committed
  /\ ~loadingVoices
  /\ v \in voices
  /\ selectedVoice' = v
  /\ UNCHANGED <<text, speechRate, pitch, engine, voices, audioUrl,
                 isGenerating, error, success, loadingVoices, cfgVars, callVars,
                 urlVars, playerVars>>

\* The settlement of getAvailableVoices(): resolved with a list, or rejected
VoicesResolved(list) == [ok |-> TRUE, list |-> list]
VoicesRejected == [ok |-> FALSE, list |-> {}]

\* Mutant of VoicesAfter: the catalog is set whatever the outcome
VoicesAfterAlwaysSet(out, cur) == out.list

\* try { setVoices(await getAvailableVoices()) } catch { console.warn(...) }
VoicesAfter(out, cur) == IF out.ok THEN out.list ELSE cur

\* loadVoices resumes after await getAvailableVoices().  The gateway module
\* returns its static list; the function module fetches the list and may
\* be rejected, in which case the catalog is left as it is.
LoadVoicesSettle(out) ==
  /\ voicesCall
  /\ voicesCall' = FALSE
  /\ IF shape = "gateway" THEN out = VoicesResolved(STATIC_VOICES) ELSE TRUE
  /\ IF ~mounted THEN UNCHANGED <<voices, loadingVoices>>
     ELSE /\ voices' = VoicesAfter(out, voices)
          /\ loadingVoices' = FALSE
  /\ UNCHANGED <<text, selectedVoice, speechRate, pitch, engine, audioUrl,
                 isGenerating, error, success, cfgVars, inFlight, fetches, timers,
                 urlVars, playerVars>>

\* ------------------------------------------------------------ AudioPlayer
\* Mutant of Revoke: the URL is revoked by both effect cleanups
RevokeTwice(url, rv) ==
  IF IsBlobUrl(url) THEN [rv EXCEPT ![url.id] = @ + 2] ELSE rv

\* URL.revokeObjectURL through cleanupAudioUrl
Revoke(url, rv) ==
  IF IsBlobUrl(url) THEN [rv EXCEPT ![url.id] = @ + 1] ELSE rv

\* Mutant of CleanupUrl: the cleanup revokes every blob URL created so far,
\* the one about to be bound included
CleanupUrlAll(url, rv) == [i \in DOMAIN rv |-> rv[i] + 1]

\* The cleanup of the second effect: if (audioUrl) cleanupAudioUrl(audioUrl),
\* with the audioUrl of the render that created the effect
CleanupUrl(url, rv) == IF url # NoUrl THEN Revoke(url, rv) ELSE rv

\* The body of the first effect: nothing without an <audio> element (the
\* player renders none while audioUrl is empty), else the reset
ResetState(st, url) ==
  IF url = NoUrl THEN st
  ELSE [st EXCEPT !.currentTime = 0, !.isPlaying = FALSE]

\* A newly bound (or removed) element: the load algorithm pauses, rewinds
\* and forgets the metadata
FreshElement == [paused |-> TRUE, time |-> 0, loaded |-> FALSE, failed |-> FALSE]

\* React commits the AudioPlayer for a changed audioUrl prop: the src of
\* the element is switched (its queued events are dropped and its pending
\* play() promises rejected by the load algorithm), the cleanups of both
\* effects run with the old audioUrl, and both effects run with the new one
Commit ==
  /\ mounted
  /\ ~Committed
  /\ revokes' = CleanupUrl(boundUrl, revokes)
  /\ boundUrl' = audioUrl
  /\ el' = FreshElement
  /\ pending' = {}
  /\ playCalls' = FALSE
  /\ state' = ResetState(state, audioUrl)
  /\ handed' = IF IsBlobUrl(audioUrl) THEN handed \cup {audioUrl.id} ELSE handed
  /\ UNCHANGED <<appVars, cfgVars, callVars, nBlobs, mounted>>

\* The component tree is unmounted: the effect cleanups run with the
\* audioUrl of the last commit
Unmount ==
  /\ mounted
  /\ mounted' = FALSE
  /\ revokes' = CleanupUrl(boundUrl, revokes)
  /\ el' = FreshElement
  /\ pending' = {}
  /\ playCalls' = FALSE
  /\ UNCHANGED <<appVars, cfgVars, callVars, nBlobs, handed, boundUrl, state>>

\* The transport controls are rendered only with an audioUrl
ControlsShown == mounted /\ Committed /\ boundUrl # NoUrl

\* Mutant of TogglePlay: isPlaying is set before play() is awaited, and stays
\* set when play() rejects
TogglePlayOptimistic(allowed) ==
  /\ ControlsShown
  /\ IF state.isPlaying
     THEN /\ allowed
          /\ el' = [el EXCEPT !.paused = TRUE]
          /\ pending' = IF el.paused THEN pending ELSE pending \cup {"timeupdate"}
          /\ playCalls' = IF el.paused THEN playCalls ELSE FALSE
          /\ state' = [state EXCEPT !.isPlaying = FALSE]
     ELSE /\ state' = [state EXCEPT !.isPlaying = TRUE]
          /\ IF allowed /\ ~el.failed
             THEN /\ el' = [el EXCEPT !.paused = FALSE,
                                      !.time = IF el.loaded /\ el.time = MediaLength THEN 0 ELSE @]
                  /\ playCalls' = TRUE
                  /\ UNCHANGED pending
             ELSE UNCHANGED <<el, pending, playCalls>>
  /\ UNCHANGED <<appVars, cfgVars, callVars, urlVars, mounted, boundUrl>>

\* togglePlay.  allowed: whether the element accepts play() (it rejects at
\* once under the user-gesture policy, and for a resource that has failed to
\* load; the rejection is logged)
TogglePlay(allowed) ==
  /\ ControlsShown
  /\ IF state.isPlaying
     THEN /\ allowed
          /\ el' = [el EXCEPT !.paused = TRUE]
          /\ pending' = IF el.paused THEN pending ELSE pending \cup {"timeupdate"}
          /\ playCalls' = IF el.paused THEN playCalls ELSE FALSE
          /\ state' = [state EXCEPT !.isPlaying = FALSE]
     ELSE IF allowed /\ ~el.failed
          THEN /\ el' = [el EXCEPT !.paused = FALSE,
                                   !.time = IF el.loaded /\ el.time = MediaLength THEN 0 ELSE @]
               /\ playCalls' = TRUE
               /\ UNCHANGED <<pending, state>>
          ELSE UNCHANGED <<el, pending, playCalls, state>>
  /\ UNCHANGED <<appVars, cfgVars, callVars, urlVars, mounted, boundUrl>>

\* The promise of audio.play() resolves once the element can play, and
\* togglePlay resumes with setState(isPlaying: true)
PlayResolve ==
  /\ mounted
  /\ playCalls
  /\ el.loaded
  /\ ~el.paused
  /\ playCalls' = FALSE
  /\ state' = [state EXCEPT !.isPlaying = TRUE]
  /\ UNCHANGED <<appVars, cfgVars, callVars, urlVars, mounted, boundUrl, el, pending>>

\* Mutant of RangeValue: the input has no min attribute
RangeValueNoMin(v, lo, hi) == IF v > hi THEN hi ELSE v

\* Mutant of RangeValue: the input has no max attribute
RangeValueNoMax(v, lo, hi) == IF v < lo THEN lo ELSE v

\* The value of <input type="range" min={lo} max={hi}> when the user asks
\* for v: the control keeps its value within min and max
RangeValue(v, lo, hi) == IF v < lo THEN lo ELSE IF v > hi THEN hi ELSE v

\* handleSeek, from the range input with min={0} max={state.duration || 0}:
\* newTime = parseFloat(e.target.value)
HandleSeek(t) ==
  /\ ControlsShown
  /\ LET newTime == RangeValue(t, 0, state.duration)
     IN  /\ el' = [el EXCEPT !.time = newTime]
         /\ state' = [state EXCEPT !.currentTime = newTime]
  /\ pending' = pending \cup {"timeupdate"}
  /\ UNCHANGED <<appVars, cfgVars, callVars, urlVars, mounted, boundUrl, playCalls>>

\* handleVolumeChange, from the range input with min={0} max={1}
HandleVolumeChange(v) ==
  /\ ControlsShown
  /\ state' = [state EXCEPT !.volume = RangeValue(v, 0, VOLUME_MAX)]
  /\ UNCHANGED <<appVars, cfgVars, callVars, urlVars, mounted, boundUrl, el, pending,
                 playCalls>>

\* restart
Restart ==
  /\ ControlsShown
  /\ el' = [el EXCEPT !.time = 0]
  /\ pending' = pending \cup {"timeupdate"}
  /\ state' = [state EXCEPT !.currentTime = 0]
  /\ UNCHANGED <<appVars, cfgVars, callVars, urlVars, mounted, boundUrl, playCalls>>

\* ------------------------------------------------------ the <audio> element
\* preload="metadata": the metadata of the bound resource arrives
ElLoaded ==
  /\ mounted
  /\ boundUrl # NoUrl
  /\ ~el.loaded
  /\ ~el.failed
  /\ el' = [el EXCEPT !.loaded = TRUE]
  /\ pending' = pending \cup {"loadedmetadata"}
  /\ UNCHANGED <<appVars, cfgVars, callVars, urlVars, mounted, boundUrl, state, playCalls>>

\* The bound resource cannot be loaded (unreachable, or not audio): the
\* element sets its error and rejects the pending play() promises, which
\* togglePlay catches and logs
ElError ==
  /\ mounted
  /\ boundUrl # NoUrl
  /\ ~el.loaded
  /\ ~el.failed
  /\ el' = [el EXCEPT !.failed = TRUE]
  /\ playCalls' = FALSE
  /\ UNCHANGED <<appVars, cfgVars, callVars, urlVars, mounted, boundUrl, state, pending>>

\* Playback advances by a second.  The task that resolves the play()
\* promises is queued when playback starts, ahead of any progress event
ElAdvance ==
  /\ mounted
  /\ el.loaded
  /\ ~el.paused
  /\ el.time < MediaLength
  /\ ~playCalls
  /\ el' = [el EXCEPT !.time = @ + 1]
  /\ pending' = pending \cup {"timeupdate"}
  /\ UNCHANGED <<appVars, cfgVars, callVars, urlVars, mounted, boundUrl, state, playCalls>>

\* Playback reaches the end of the resource: the element pauses and queues
\* timeupdate and ended
ElEnded ==
  /\ mounted
  /\ el.loaded
  /\ ~el.paused
  /\ el.time = MediaLength
  /\ ~playCalls
  /\ el' = [el EXCEPT !.paused = TRUE]
  /\ pending' = pending \cup {"timeupdate", "ended"}
  /\ UNCHANGED <<appVars, cfgVars, callVars, urlVars, mounted, boundUrl, state, playCalls>>

\* audio.duration || 0
ElDuration == IF el.loaded THEN MediaLength ELSE 0

\* updateTime, updateDuration, handleEnded
Listener(kind, st) ==
  CASE kind = "timeupdate" -> [st EXCEPT !.currentTime = el.time]
    [] kind = "loadedmetadata" -> [st EXCEPT !.duration = ElDuration]
    [] kind = "ended" -> [st EXCEPT !.isPlaying = FALSE, !.currentTime = 0]

\* A queued media event is dispatched to the listener the effect attached
Deliver(kind) ==
  /\ mounted
  /\ kind \in pending
  /\ pending' = pending \ {kind}
  /\ state' = Listener(kind, state)
  /\ UNCHANGED <<appVars, cfgVars, callVars, urlVars, mounted, boundUrl, el, playCalls>>

\* ------------------------------------------------------------ environment
\* Texts the user types: empty, white space only, valid with padding, and
\* one code unit over the limit
SessionTexts == {Text(0, 0, 0), Text(2, 0, 0), Text(1, 5, 1), Text(0, MAX_TEXT + 1, 0)}

\* Options of the voice dropdown the user clicks
VoiceChoices == {"Joanna", "Amy"}

\* Catalogs GET /text-to-speech/voices answers with
ServerCatalogs == {{}, {"Amy", "Ivy"}, STATIC_VOICES}

\* Outcomes of getAvailableVoices()
VoiceOutcomes == {VoicesRejected} \cup {VoicesResolved(c) : c \in ServerCatalogs}

AudioResponse ==
  Response("ok", 200, "OK", "audio/mpeg", "ok", Null, Null, NoUrl, NoUrl, Null)
JsonResponse ==
  Response("ok", 200, "OK", "application/json", "ok", Null, Null, RemoteUrl(1), NoUrl, Null)
EmptyJsonResponse ==
  Response("ok", 200, "OK", "application/json", "ok", Null, Null, NoUrl, NoUrl, Null)
BadRequestResponse ==
  Response("ok", 400, "Bad Request", "application/json", "ok", Null, "Missing required fields",
           NoUrl, NoUrl, Null)
NetworkFailure ==
  Response("typeErrorFetch", 0, "", "", "other", Null, Null, NoUrl, NoUrl, Null)

SessionResponses ==
  {AudioResponse, JsonResponse, EmptyJsonResponse, BadRequestResponse, NetworkFailure}

\* ---------------------------------------------------------- specifications
\* A session of the application: form edits, generate clicks, settlements,
\* timers, the player's commits and the teardown
Next ==
  \/ \E t \in SessionTexts : SetText(t)
  \/ \E v \in VoiceChoices : SetSelectedVoice(v)
  \/ ClickGenerate
  \/ \E r \in SessionResponses : SettleGenerate(r)
  \/ \E out \in VoiceOutcomes : LoadVoicesSettle(out)
  \/ \E g \in timers : TimerFire(g)
  \/ ClearMessages
  \/ Commit
  \/ Unmount

Spec == Init /\ [][Next]_vars

\* The session with its promises settling: a pending getAvailableVoices()
\* and a pending convertTextToSpeech() are settled, one way or the other
SpecSettling ==
  /\ Spec
  /\ WF_vars(\E out \in VoiceOutcomes : LoadVoicesSettle(out))
  /\ WF_vars(\E r \in SessionResponses : SettleGenerate(r))

\* handleGenerate applied as a function to a form state drawn from bounded
\* sets, whatever the button's disabled attribute says: once per behaviour
BuildTexts ==
  {Text(0, 0, 0), Text(3, 0, 0), Text(MAX_TEXT + 1, 0, 0),
   Text(0, 1, 0), Text(1, 5, 1),
   Text(0, MAX_TEXT, 0), Text(1, MAX_TEXT - 2, 1), Text(1, MAX_TEXT - 1, 0),
   Text(0, MAX_TEXT + 1, 0), Text(1, MAX_TEXT - 1, 1)}

BuildRates == {0, RATE_MIN - 1, RATE_MIN, 100, 150, RATE_MAX, RATE_MAX + 1, 1000}

BuildPitches == {PITCH_MIN - 1, PITCH_MIN, 0, 5, PITCH_MAX, PITCH_MAX + 1}

InitBuild ==
  /\ InitRest
  /\ text \in BuildTexts
  /\ selectedVoice \in {"Joanna", "Amy"}
  /\ speechRate \in BuildRates
  /\ pitch \in BuildPitches
  /\ engine \in {"standard", "neural"}
  /\ voices \in {DEMO_VOICES, {"Amy", "Ivy"}}
  /\ audioUrl = NoUrl
  /\ isGenerating = FALSE
  /\ error = Null
  /\ success = Null
  /\ loadingVoices = FALSE
  /\ voicesCall = FALSE
  /\ shape \in {"gateway", "function"}
  /\ configured = TRUE
  /\ secureContext = TRUE

CallHandleGenerate ==
  /\ error = Null
  /\ inFlight = <<>>
  /\ HandleGenerate
  /\ UNCHANGED <<text, selectedVoice, speechRate, pitch, engine, voices, audioUrl,
                 loadingVoices, cfgVars, voicesCall, timers, urlVars, playerVars>>

NextBuild == CallHandleGenerate

SpecBuild == InitBuild /\ [][NextBuild]_vars

\* The player under generations: the gateway is configured, the catalog is
\* loaded and a valid text is typed; the user generates and uses the
\* transport controls while the element plays and notifies
InitPlayer ==
  /\ InitRest
  /\ text = Text(1, 5, 1)
  /\ selectedVoice = "Joanna"
  /\ speechRate = 100
  /\ pitch = 0
  /\ engine = "standard"
  /\ voices = STATIC_VOICES
  /\ audioUrl = NoUrl
  /\ isGenerating = FALSE
  /\ error = Null
  /\ success = Null
  /\ loadingVoices = FALSE
  /\ voicesCall = FALSE
  /\ shape = "gateway"
  /\ configured = TRUE
  /\ secureContext = TRUE

\* Positions and volumes the user asks the sliders for, beyond their ends
\* included
SeekRequests == -1 .. MediaLength + 1

VolumeRequests == {-1, VOLUME_MAX \div 2, VOLUME_MAX, VOLUME_MAX + 1}

PlayerResponses == {AudioResponse, JsonResponse, BadRequestResponse}

EventKinds == {"timeupdate", "loadedmetadata", "ended"}

NextPlayer ==
  \/ ClickGenerate
  \/ \E r \in PlayerResponses : SettleGenerate(r)
  \/ Commit
  \/ Unmount
  \/ \E allowed \in BOOLEAN : TogglePlay(allowed)
  \/ PlayResolve
  \/ \E t \in SeekRequests : HandleSeek(t)
  \/ \E v \in VolumeRequests : HandleVolumeChange(v)
  \/ Restart
  \/ ElLoaded
  \/ ElError
  \/ ElAdvance
  \/ ElEnded
  \/ \E k \in EventKinds : Deliver(k)

SpecPlayer == InitPlayer /\ [][NextPlayer]_vars

\* The adapter under responses of every kind: a valid text is typed, the
\* base URL is set, and each generate click settles on a response drawn
\* from AdapterResponses
ErrorResponses ==
  {Response("ok", st, stText, "application/json", body, msg, err, NoUrl, NoUrl, Null) :
     st \in {400, 500}, stText \in {"", "Bad Request"}, body \in {"ok", "other"},
     msg \in {Null, "", "Invalid voice"}, err \in {Null, "Missing required fields"}}

AudioResponses ==
  {Response("ok", 200, "OK", ct, body, Null, Null, NoUrl, NoUrl, id) :
     ct \in {"audio/mpeg", "audio/ogg"}, body \in {"ok", "typeErrorFetch", "other"},
     id \in {Null, "", "req-1"}}

JsonResponses ==
  {Response("ok", 200, "OK", "application/json", body, Null, Null, aUrl, url, id) :
     body \in {"ok", "other"}, aUrl \in {NoUrl, RemoteUrl(1)}, url \in {NoUrl, RemoteUrl(2)},
     id \in {Null, "req-1"}}

NetworkFailures ==
  {Response(net, 0, "", "", "other", Null, Null, NoUrl, NoUrl, Null) :
     net \in {"typeErrorFetch", "other"}}

AdapterResponses == ErrorResponses \cup AudioResponses \cup JsonResponses \cup NetworkFailures

InitAdapter ==
  /\ InitRest
  /\ text \in {Text(0, 1, 0), Text(1, 5, 1)}
  /\ selectedVoice = "Joanna"
  /\ speechRate = 100
  /\ pitch = 0
  /\ engine = "standard"
  /\ voices = STATIC_VOICES
  /\ audioUrl = NoUrl
  /\ isGenerating = FALSE
  /\ error = Null
  /\ success = Null
  /\ loadingVoices = FALSE
  /\ voicesCall = FALSE
  /\ shape \in {"gateway", "function"}
  /\ configured = TRUE
  /\ secureContext \in BOOLEAN

NextAdapter ==
  \/ ClickGenerate
  \/ \E r \in AdapterResponses : SettleGenerate(r)
  \/ Commit

SpecAdapter == InitAdapter /\ [][NextAdapter]_vars

\* ------------------------------------------------------------------ claims
\* C1: in every reachable state at most one blob audio URL is live, so a
\* replaced URL and its replacement are never live together
C1_AtMostOneLive == Cardinality(Live) <= 1

\* C2: every blob URL handed to the AudioPlayer is revoked exactly once, when
\* it is replaced or when the player is unmounted; it is not revoked while it
\* is the player's audioUrl, never twice, and no other URL is revoked
C2_RevokedExactlyOnce ==
  \A i \in 1..nBlobs :
    revokes[i] = IF i \notin handed THEN 0
                 ELSE IF mounted /\ boundUrl = BlobUrl(i) THEN 0
                 ELSE 1

C2_Witness ==
  /\ ~mounted
  /\ handed = {1, 2}
  /\ revokes = <<1, 1>>

\* C3: a media notification of the superseded resource, dispatched after
\* audioUrl has advanced to the next resource, leaves the playback state as
\* it is
C3_StaleNotificationIgnored ==
  [][(audioUrl # boundUrl /\ \E k \in EventKinds : Deliver(k)) => state' = state]_vars

\* C4: when the player's audioUrl changes to a new resource the playback
\* state becomes isPlaying = false, currentTime = 0, duration = 0, with the
\* volume kept
C4_ResetOnNewResource ==
  [][(boundUrl' # boundUrl /\ boundUrl' # NoUrl) =>
       state' = [isPlaying |-> FALSE, currentTime |-> 0, duration |-> 0,
                 volume |-> state.volume]]_vars

\* C5: at most one synthesis request is in flight, and while one is, the
\* generate action is disabled
C5_OneInFlight ==
  /\ Len(inFlight) <= 1
  /\ inFlight # <<>> => isGenerating /\ GenerateDisabled

C5_Witness ==
  /\ Len(inFlight) = 1
  /\ mounted
  /\ Committed
  /\ fetches < MaxGenerations
  /\ Length(Trim(text)) > 0
  /\ Length(text) <= MAX_TEXT

\* C6: handleGenerate on a text whose trimmed length is 0 sets the empty-text
\* error and produces no request (SpecBuild: every step applies the handler)
C6_EmptyTextRejected ==
  [][Length(Trim(text)) = 0 =>
       /\ error' = EMPTY_TEXT_MSG
       /\ inFlight' = <<>>
       /\ fetches' = fetches
       /\ isGenerating' = FALSE]_vars

C6_Witness ==
  /\ text = Text(3, 0, 0)
  /\ error = EMPTY_TEXT_MSG
  /\ inFlight = <<>>

\* C7, as stated: every text longer than 3000 code units fails with the
\* too-long error
C7_TooLongAlwaysTextTooLong ==
  [][Length(text) > MAX_TEXT => error' = TOO_LONG_MSG]_vars

\* C7, amended: a text with non-blank content fails with the too-long error
\* exactly when its length as entered exceeds 3000, and is accepted (a request
\* is built) otherwise, at exactly 3000 in particular
C7_LengthLimit ==
  [][Length(Trim(text)) > 0 =>
       IF Length(text) > MAX_TEXT
       THEN error' = TOO_LONG_MSG /\ inFlight' = <<>> /\ fetches' = fetches
       ELSE /\ error' = Null
            /\ inFlight' = <<BuildRequest(text, selectedVoice, engine, speechRate, pitch)>>]_vars

C7_Witness ==
  /\ text = Text(1, MAX_TEXT - 2, 1)
  /\ Len(inFlight) = 1
  /\ error = Null

\* C8: no request is sent with a voiceId outside the currently loaded
\* catalog (the build fails with UnknownVoice instead)
C8_NoUnknownVoiceSent ==
  [][fetches' > fetches => selectedVoice \in voices]_vars

\* C9: the built request carries the rate clamped into [0.25, 4.0] and the
\* pitch clamped into [-20, 20]
C9_ProsodyClamped ==
  [][fetches' > fetches =>
       LET req == inFlight'[Len(inFlight')]
           Clamp(x, lo, hi) == IF x < lo THEN lo ELSE IF x > hi THEN hi ELSE x
       IN  /\ req.speechRate = NumberToString(Clamp(speechRate, RATE_MIN, RATE_MAX))
           /\ req.pitch = NumberToString(100 * Clamp(pitch, PITCH_MIN, PITCH_MAX))]_vars

\* C10: no fetch is issued for a generate action whose input fails
\* validation (blank text, text over the limit, voice not in the catalog)
C10_NoFetchForInvalidInput ==
  [][fetches' > fetches =>
       /\ Length(Trim(text)) > 0
       /\ Length(text) <= MAX_TEXT
       /\ selectedVoice \in voices]_vars

\* C11: for a non-success HTTP response the adapter of either shape raises
\* an error with the HTTP status, whose message is the error or message
\* field of the JSON body when the body parses and has one, and the
\* transport status line when the body does not parse
C11_HttpErrorMessage ==
  [][\A r \in ErrorResponses :
       SettleGenerate(r) =>
         LET res == Convert(r)
             fields == {r.message, r.error} \ {Null, ""}
         IN  /\ ~res.ok
             /\ res.status = r.status
             /\ (r.body = "ok" /\ fields # {}) => res.message \in fields
             /\ r.body # "ok" => res.message \in {r.statusText, HttpErrorMsg(r.status)} \ {""}]_vars

\* C12: for a successful response with an audio content type whose payload
\* is read, the gateway adapter returns a result whose audioUrl is the blob
\* URL it has just created, whose contentType is the response's and whose
\* requestId is the x-request-id header when present, a generated id
\* otherwise, and never empty
C12_AudioResult ==
  [][\A r \in AudioResponses :
       (SettleGenerate(r) /\ shape = "gateway" /\ r.body = "ok") =>
         LET res == Convert(r)
         IN  /\ res.ok
             /\ res.blob
             /\ res.audioUrl = BlobUrl(nBlobs + 1)
             /\ nBlobs' = nBlobs + 1
             /\ res.contentType = r.ctype
             /\ res.requestId \notin {Null, ""}
             /\ res.requestId = IF r.reqId \in {Null, ""} THEN GENERATED_ID ELSE r.reqId]_vars

\* C13: the adapter returns no result without an audio URL: a successful
\* JSON response with neither audioUrl nor url makes the call fail, the
\* App shows an error for it, does not report success and does not load it
C13_MalformedResponseRejected ==
  [][\A r \in JsonResponses :
       (SettleGenerate(r) /\ r.body = "ok") =>
         LET res == Convert(r)
         IN  /\ res.ok => res.audioUrl # NoUrl
             /\ (r.audioUrl = NoUrl /\ r.url = NoUrl) =>
                   /\ ~res.ok
                   /\ error' # Null
                   /\ success' # SUCCESS_MSG
                   /\ audioUrl' = audioUrl]_vars

\* C14: a network-level failure of the fetch makes the adapter of either
\* shape raise an error whose message differs from every message it
\* produces for a non-2xx response or for a body that does not parse
C14_NetworkMessageDistinct ==
  [][\A r \in NetworkFailures :
       SettleGenerate(r) =>
         LET ServerSide == {q \in AdapterResponses : q.net = "ok" /\ q.body \in {"ok", "other"}}
             ServerMessages == {Convert(q).message : q \in {q \in ServerSide : ~Convert(q).ok}}
         IN  /\ ~Convert(r).ok
             /\ Convert(r).message \notin ServerMessages]_vars

\* C15: with the base URL of the configured shape unset, a generate click
\* issues no fetch and shows an error message
C15_NoFetchWhenUnconfigured ==
  [][(ClickGenerate /\ ~configured) => (fetches' = fetches /\ error' # Null)]_vars

\* C16: when getAvailableVoices() is rejected, the catalog stays the
\* built-in list (not empty), no error message is set, and the loading flag
\* of the mounted App returns to false, which enables the voice selector
C16_VoicesFallback ==
  /\ [][(LoadVoicesSettle(VoicesRejected) /\ mounted) =>
          /\ voices' = DEMO_VOICES
          /\ voices' # {}
          /\ error' = error
          /\ loadingVoices' = FALSE]_vars
  /\ (mounted /\ loadingVoices) ~> (~loadingVoices \/ ~mounted)

C16_Witness ==
  /\ mounted
  /\ shape = "function"
  /\ ~voicesCall
  /\ voices = DEMO_VOICES
  /\ ~loadingVoices
  /\ error = Null

\* C17: a step issues at most one fetch, only an accepted generate click
\* issues one, and the settlement of a call, failed or not, issues none:
\* the adapter does not send the request again
C17_OneFetchPerAction ==
  [][/\ fetches' \in {fetches, fetches + 1}
     /\ fetches' = fetches + 1 =>
           /\ ClickGenerate
           /\ ~isGenerating /\ isGenerating'
           /\ Len(inFlight') = Len(inFlight) + 1
     /\ \A r \in SessionResponses : SettleGenerate(r) => fetches' = fetches]_vars

C17_Witness ==
  /\ fetches = 1
  /\ inFlight = <<>>
  /\ error = NETWORK_MSG
  /\ ~isGenerating

\* C18: when the call of a mounted App settles with a failure, the failure's
\* message is displayed as the error; every settlement clears isGenerating,
\* after which the button is disabled only by its text; and a started
\* generation of a mounted App does end with isGenerating = false
C18_FailuresShownAndRecovered ==
  /\ [][\A r \in SessionResponses :
          (SettleGenerate(r) /\ mounted) =>
            /\ ~Convert(r).ok => (error' = Convert(r).message /\ error' \notin {Null, ""})
            /\ isGenerating' = FALSE
            /\ GenerateDisabled' = (IsBlank(text') \/ TooLong(text'))]_vars
  /\ (mounted /\ isGenerating) ~> (~isGenerating \/ ~mounted)

C18_Witness ==
  /\ mounted
  /\ fetches = 1
  /\ inFlight = <<>>
  /\ error = "Missing required fields"
  /\ ~isGenerating
  /\ ~GenerateDisabled

\* C19: a call that ends in an error has created no blob URL
C19_NoBlobOnFailure ==
  [][\A r \in AdapterResponses :
       (SettleGenerate(r) /\ ~Convert(r).ok) => nBlobs' = nBlobs]_vars

\* C20: a play request made while isPlaying is false that the element
\* rejects leaves the playback state as it is, with isPlaying false, also
\* when the pending request is abandoned later; when the element accepts,
\* isPlaying becomes true
C20_PlayRejectionCaught ==
  /\ [][(TogglePlay(FALSE) /\ ~state.isPlaying) =>
          (state' = state /\ ~state'.isPlaying)]_vars
  /\ [][(ElError /\ playCalls) => (state' = state /\ ~state'.isPlaying)]_vars
  /\ [][(playCalls /\ ~playCalls' /\ ~PlayResolve) => ~state'.isPlaying]_vars
  /\ [][PlayResolve => state'.isPlaying]_vars

C20_Witness ==
  /\ mounted
  /\ boundUrl # NoUrl
  /\ el.failed
  /\ ~el.paused
  /\ ~playCalls
  /\ ~state.isPlaying

\* C21: when playback has reached the end of the resource, the tracker ends
\* at isPlaying = false, currentTime = 0 also when the ended notification is
\* delivered before the final timeupdate: the timeupdate that is still
\* queued then leaves the state that ended has set
C21_EndStateAnyOrder ==
  [][(/\ Deliver("ended")
      /\ "timeupdate" \in pending
      /\ Committed
      /\ el.loaded /\ el.paused /\ el.time = MediaLength) =>
       LET final == Listener("timeupdate", state')
       IN  ~final.isPlaying /\ final.currentTime = 0]_vars

\* C22: restart from any state of the player leaves currentTime = 0 and
\* isPlaying = false
C22_RestartToLoaded ==
  [][Restart => (state'.currentTime = 0 /\ ~state'.isPlaying)]_vars

\* C23: a seek to t stores t clamped to [0, duration] as the position at
\* once, in the state and in the element, and leaves isPlaying and the
\* element's paused flag as they are
C23_SeekClamped ==
  [][\A t \in SeekRequests :
       HandleSeek(t) =>
         LET clamped == IF t < 0 THEN 0 ELSE IF t > state.duration THEN state.duration ELSE t
         IN  /\ state' = [state EXCEPT !.currentTime = clamped]
             /\ el'.time = clamped
             /\ el'.paused = el.paused]_vars

C23_Witness ==
  /\ mounted
  /\ Committed
  /\ state.duration = MediaLength
  /\ state.currentTime = MediaLength
  /\ el.time = MediaLength
  /\ el.paused
  /\ ~state.isPlaying
  /\ "timeupdate" \in pending
  /\ "ended" \notin pending

\* C24: the playback state always has volume in [0, 1], currentTime >= 0
\* and duration >= 0, and a volume change to v stores v clamped to [0, 1]
\* and changes no other field
C24_StateRanges ==
  /\ [](/\ state.volume \in 0..VOLUME_MAX
        /\ state.currentTime >= 0
        /\ state.duration >= 0)
  /\ [][\A v \in VolumeRequests :
          HandleVolumeChange(v) =>
            LET clamped == IF v < 0 THEN 0 ELSE IF v > VOLUME_MAX THEN VOLUME_MAX ELSE v
            IN  state' = [state EXCEPT !.volume = clamped]]_vars

C24_Witness ==
  /\ mounted
  /\ Committed
  /\ state.volume = 0
  /\ state.duration = MediaLength
  /\ state.currentTime > 0

\* C25: the pause command issued on a resource that is already paused
\* leaves the tracker paused, in the state the first pause left.  The
\* play/pause control is the player's only pause command, and what it does
\* depends on the state only, not on the command before it
C25_PauseIdempotent ==
  [][(/\ \E allowed \in BOOLEAN : TogglePlay(allowed)
      /\ ~state.isPlaying
      /\ el.loaded /\ el.paused) =>
       (state' = state /\ el'.paused /\ ~playCalls')]_vars

\* C26: the blob URL bound to the mounted player is not revoked; a step
\* that revokes revokes only the blob URL the player was bound to, in the
\* step that replaces it or unmounts the player; a remote URL is never
\* revoked
C26_NoRevokeWhileBound ==
  /\ [](mounted /\ IsBlobUrl(boundUrl) => revokes[boundUrl.id] = 0)
  /\ [][\A i \in 1..nBlobs :
          revokes'[i] # revokes[i] =>
            /\ boundUrl = BlobUrl(i)
            /\ mounted
            /\ boundUrl' # boundUrl \/ ~mounted']_vars
  /\ [][(~IsBlobUrl(boundUrl) /\ (boundUrl' # boundUrl \/ mounted' # mounted)) =>
          (\A i \in 1..nBlobs : revokes'[i] = revokes[i])]_vars

C26_Witness ==
  /\ mounted
  /\ Committed
  /\ audioUrl = BlobUrl(2)
  /\ revokes = <<1, 0>>
  /\ handed = {1, 2}

\* C27: the timer of an earlier successful generation does not clear the
\* success message that a later successful generation has set
C27_OwnTimerOnly ==
  [][\A g \in timers :
       (/\ TimerFire(g)
        /\ success # Null
        /\ \E later \in timers : later > g) =>
         success' = success]_vars

\* C28: in the mounted player isPlaying = true implies that the element is
\* not paused and is bound to the current audioUrl
C28_IsPlayingMeansPlaying ==
  (mounted /\ state.isPlaying) => (~el.paused /\ boundUrl = audioUrl)

\* C29: a generate action that fails, in handleGenerate itself or when the
\* call settles, leaves audioUrl, the resource bound to the player, the
\* element, the playback state and the revocations of the blob URLs as
\* they were
C29_FailedGenerateKeepsAudio ==
  [][((ClickGenerate /\ error' # Null)
      \/ \E r \in PlayerResponses : SettleGenerate(r) /\ ~Convert(r).ok) =>
       (/\ audioUrl' = audioUrl
        /\ boundUrl' = boundUrl
        /\ state' = state
        /\ el' = el
        /\ \A i \in 1..nBlobs : revokes'[i] = revokes[i])]_vars

C29_Witness ==
  /\ mounted
  /\ Committed
  /\ fetches = 2
  /\ inFlight = <<>>
  /\ error # Null
  /\ audioUrl = BlobUrl(1)
  /\ revokes[1] = 0
  /\ state.isPlaying
  /\ ~el.paused
  /\ state.currentTime > 0
  /\ state.duration = MediaLength

\* C30: error and success are never both non-null
C30_OneMessage == ~(error # Null /\ success # Null)

C30_Witness ==
  /\ fetches = 2
  /\ inFlight = <<>>
  /\ error # Null
  /\ success = Null
  /\ timers # {}
  /\ audioUrl # NoUrl

====
